---- MODULE Spec2Model ----
(***************************************************************************)
(* State-machine model of the local-doc-assistant frontend:                *)
(*   - the chat turn driven by ChatContext.sendMessage and                 *)
(*     StreamingChatService.streamMessage (specifications Spec, SpecTurns),*)
(*   - the upload dialog's simulated ingestion run, FileUpload.handleUpload *)
(*     with mock/fileUploadMocks (specification SpecIngest),               *)
(*   - the backend's processing task, of which the frontend holds only the *)
(*     ProcessingProgress declaration (specification SpecTask).            *)
(***************************************************************************)
EXTENDS Integers, Sequences, FiniteSets, TLC

\* ------------------------------------------------------------------ bounds
MaxTurns == 2      \* turns of one chat, specification SpecTurns
MaxUiTurns == 1    \* turns of one chat, specification Spec (with the input UI)
MaxEvents == 3     \* stream events delivered, all turns together
MaxClock == 3      \* values of Date.now()

\* ------------------------------------------------------------- option type
\* An optional field (undefined | value) is a sequence of length 0 or 1.
None == <<>>
Some(v) == <<v>>

\* ---------------------------------------------------------------- variables
VARIABLES
  files,                  \* FileContext state.files
  models,                 \* useModels: models
  hasChat,                \* ChatState.currentChat !== null
  chatModel,              \* currentChat.model
  messages,               \* currentChat.messages
  selectedFiles,          \* ChatState.selectedFiles
  showConfirmationModal,  \* ChatInput state
  userHasConfirmedFiles,  \* ChatInput state
  turns,                  \* one record per sendMessage invocation (its closure)
  now,                    \* the last value Date.now() gave
  searchMode              \* Chat page state: the search mode the header shows

chatVars == <<files, models, hasChat, chatModel, messages, selectedFiles,
              showConfirmationModal, userHasConfirmedFiles, turns, now, searchMode>>

VARIABLES
  showUpload,             \* AppContext: the upload dialog is mounted
  filesWithProgress,      \* FileUpload state selectedFiles: FileWithProgress[]
  isUploading,            \* FileUpload state
  privacySetting,         \* FileUpload state
  jobs,                   \* one record per handleUpload invocation (its closure)
  lastUploadCall,         \* arguments of the last fileAPI.uploadFile request
  nextFileId              \* identity of the next File object the user picks

ingestVars == <<showUpload, filesWithProgress, isUploading, privacySetting,
                jobs, lastUploadCall, nextFileId>>

VARIABLES
  task,                   \* the backend's processing task of one document
  taskId,                 \* its identity; a retry creates the next one
  documentProcessed       \* the document's processed flag

taskVars == <<task, taskId, documentProcessed>>

VARIABLES
  body,                   \* the bytes of a streaming response (history)
  unread,                 \* the bytes the reader has not yet given out
  buffer,                 \* streamMessage: let buffer
  delivered,              \* the chunks handed to onChunk, in order
  readerPc                \* streamMessage: "idle", "reading" or "returned"

readVars == <<body, unread, buffer, delivered, readerPc>>

VARIABLES
  chatsLoaded,            \* loadChats has dispatched LOAD_CHATS_SUCCESS
  chats,                  \* ChatState.chats
  currentChat,            \* ChatState.currentChat (None: null)
  chatError,              \* ChatState.error (None: null)
  updates,                \* one record per updateSessionModel / updateChat call
  openTurns,              \* the turns whose stream has not ended: <<chatId, messageId>>
  nextMessageId           \* id of the next message a turn adds

sessionVars == <<chatsLoaded, chats, currentChat, chatError, updates, openTurns,
                 nextMessageId>>

VARIABLES
  consumers,              \* per component using useBackendStatus: mounted, its
                          \* enableAutoCheck, its status and isChecking state
  checkInterval,          \* HealthCheckService.checkInterval is set
  listeners,              \* HealthCheckService.listeners, by consumer
  currentStatus,          \* HealthCheckService.currentStatus
  checks,                 \* the checkHealth calls, in the order they started
  nextCheck               \* number of the next checkHealth call

healthVars == <<consumers, checkInterval, listeners, currentStatus, checks, nextCheck>>

\* The state of the parts a chat turn, an upload and a task do not touch.
auxVars == <<readVars, sessionVars, healthVars>>

Turns == 1..MaxTurns

\* ------------------------------------------------------------ static data
\* The documents the backend lists (GET /docs/list_documents).
BackendDocuments ==
  << [id |-> 1, confidentiality |-> "confidential", processed |-> TRUE],
     [id |-> 2, confidentiality |-> "public", processed |-> TRUE],
     [id |-> 3, confidentiality |-> "public", processed |-> FALSE] >>

\* The model list of useModels (the fallback list has the same two kinds).
ModelList ==
  << [id |-> "mistral", isLocal |-> TRUE, canAccessConfidential |-> TRUE],
     [id |-> "gpt-4o", isLocal |-> FALSE, canAccessConfidential |-> FALSE] >>

ModelIds == {"mistral", "gpt-4o"}

Range(s) == {s[i] : i \in DOMAIN s}

\* array.map(x => x.id) and array.map(x => x.text)
IdsOf(s) == IF s = <<>> THEN <<>> ELSE [i \in DOMAIN s |-> s[i].id]
TextsOf(s) == IF s = <<>> THEN <<>> ELSE [i \in DOMAIN s |-> s[i].text]

\* FileContext.transformBackendFile
transformBackendFile(backendFile) ==
  [ id |-> backendFile.id,
    isPublic |-> backendFile.confidentiality = "public",
    isConfidential |-> backendFile.confidentiality = "confidential",
    processingStatus |-> IF backendFile.processed THEN "completed" ELSE "pending" ]

\* A canModelAccessConfidential that clears a model it does not find.
canModelAccessConfidentialUnlessFlagged(modelId) ==
  \A i \in DOMAIN models :
    (models[i].id = modelId /\ \A j \in 1..(i - 1) : models[j].id # modelId)
      => models[i].canAccessConfidential

\* useModels.canModelAccessConfidential: models.find(...)?.canAccessConfidential ?? false
canModelAccessConfidential(modelId) ==
  \E i \in DOMAIN models :
    /\ models[i].id = modelId
    /\ \A j \in 1..(i - 1) : models[j].id # modelId
    /\ models[i].canAccessConfidential

\* fileState.files.filter(file => chatState.selectedFiles.includes(file.id))
SelectSeq2(s, Test(_)) == SelectSeq(s, Test)

\* The selected files as the backend once listed them, deleted ones included.
selectedFileObjectsOnceListed(sel) ==
  LET listed == [i \in DOMAIN BackendDocuments |-> transformBackendFile(BackendDocuments[i])]
      inSel(f) == f.id \in Range(sel)
  IN SelectSeq2(listed, inSel)

selectedFileObjects(sel) ==
  LET inSel(f) == f.id \in Range(sel) IN SelectSeq2(files, inSel)

\* useConfidentialityValidation: the record the hook returns (the fields used).
useConfidentialityValidation(selectedModelId, sel) ==
  LET selected == selectedFileObjects(sel)
      hasConfidentialFiles == \E i \in DOMAIN selected : selected[i].isConfidential
      isModelCompatible == canModelAccessConfidential(selectedModelId)
      need == hasConfidentialFiles /\ ~isModelCompatible
      isConf(f) == f.isConfidential
      confNames == IF need THEN IdsOf(SelectSeq2(selected, isConf)) ELSE <<>>
  IN [ hasConfidentialFiles |-> hasConfidentialFiles,
       isModelCompatible |-> IF hasConfidentialFiles THEN isModelCompatible ELSE TRUE,
       blockedReason |-> None,
       needsConfirmation |-> need,
       confidentialFileNames |-> confNames,
       shouldShowModal |-> need ]

\* ------------------------------------------------------------- messages
Message(id, role, content, status, isGenerating, sources, error, attachments) ==
  [ id |-> id, role |-> role, content |-> content, status |-> status,
    isGenerating |-> isGenerating, sources |-> sources, error |-> error,
    attachments |-> attachments ]

\* chatReducer, case 'ADD_MESSAGE'
ADD_MESSAGE(msgs, message) == Append(msgs, message)

\* chatReducer, case 'UPDATE_MESSAGE': every message with that id is replaced.
UPDATE_MESSAGE(msgs, messageId, message) ==
  [i \in DOMAIN msgs |-> IF msgs[i].id = messageId THEN message ELSE msgs[i]]

\* ChatDialog: isLoading
isLoading ==
  \E i \in DOMAIN messages :
    \/ messages[i].status \in {"pending", "sending", "streaming"}
    \/ messages[i].isGenerating

\* ChatInput: const validation = useConfidentialityValidation(selectedModel),
\* with selectedModel = currentChat.model (Chat.tsx, currentSessionModel).
validation == useConfidentialityValidation(chatModel, selectedFiles)

\* ChatInput: `${selectedModel}-${validation.confidentialFileNames.join(',')}`
fileKey == <<chatModel, validation.confidentialFileNames>>

\* ChatInput's two effects, run after a render in which their inputs changed:
\* the confirmed set is emptied when the model or the selection changed, and the
\* modal is opened when confirmation is needed and not yet given.
ModalEffects(selectionChanged) ==
  /\ userHasConfirmedFiles' = IF selectionChanged THEN {} ELSE userHasConfirmedFiles
  /\ showConfirmationModal' =
       IF hasChat'
       THEN \/ showConfirmationModal
            \/ /\ validation'.shouldShowModal
               /\ Len(validation'.confidentialFileNames) > 0
               /\ fileKey' \notin userHasConfirmedFiles'
       ELSE showConfirmationModal

\* ------------------------------------------------------------- the turn
NoMessage == Message(0, "user", <<>>, "pending", FALSE, None, None, <<>>)
\* The request of a turn: model and attachments are sent; confidential (the
\* confidential documents among the attachments) and modalOpen (the warning
\* modal was open at submission) are history.
NoRequest ==
  [ model |-> "mistral", attachments |-> <<>>, confidential |-> {},
    modalOpen |-> FALSE, searchMode |-> "all",
    selected |-> <<>> ]                   \* history: chatState.selectedFiles at submission

NoTurn ==
  [ pc |-> "none",
    userMessage |-> NoMessage,            \* sendMessage: const userMessage
    assistantMessage |-> NoMessage,       \* sendMessage: const assistantMessage
    accumulatedContent |-> <<>>,          \* sendMessage: let accumulatedContent
    accumulatedSources |-> <<>>,          \* sendMessage: let accumulatedSources
    request |-> NoRequest,                \* the body of POST /chat/{id}/stream
    nEvents |-> 0,
    \* history, for stating the properties
    userIdx |-> 0, asstIdx |-> 0,
    aborted |-> FALSE, contentAtAbort |-> <<>>,
    errored |-> FALSE, contentAtError |-> <<>>,
    retrieved |-> <<>> ]                  \* the entries of the last sources event

\* The stream events (StreamChunk) the server sends. (An event the handler
\* ignores - an empty content, a missing sources field, a status or metadata
\* event - changes nothing and is left out of the alphabet.)
ChunkContents == {<<"a">>}
SourceItem == [text |-> "t1", filename |-> "f1.pdf"]
\* A second retrieved chunk of the same document.
SourceItem2 == [text |-> "t2", filename |-> "f1.pdf"]
SourceOptions == {Some(<<>>), Some(<<SourceItem>>), Some(<<SourceItem, SourceItem2>>)}
ErrorTexts == {"", "model failed"}
StreamChunk(type, content, sources, error) ==
  [type |-> type, content |-> content, sources |-> sources, error |-> error]
StreamChunks ==
  {StreamChunk("start", <<>>, None, "")}
  \cup {StreamChunk("chunk", c, None, "") : c \in ChunkContents}
  \cup {StreamChunk("sources", <<>>, s, "") : s \in SourceOptions}
  \cup {StreamChunk("done", <<>>, None, "")}
  \cup {StreamChunk("error", <<>>, None, e) : e \in ErrorTexts}

\* An error detail that takes the text as it comes.
errorDetailWithoutFallback(text, fallback) == [message |-> text, retryable |-> TRUE]

\* sendMessage: error: { message: text || fallback, retryable: true }
errorDetail(text, fallback) ==
  [message |-> IF text # "" THEN text ELSE fallback, retryable |-> TRUE]

\* An onChunk whose 'done' case attaches no sources.
onChunkLeavingSources(tr, msgs, chunk) ==
  LET um == tr.userMessage
      am == tr.assistantMessage
      same == [messages |-> msgs,
               accumulatedContent |-> tr.accumulatedContent,
               accumulatedSources |-> tr.accumulatedSources]
  IN CASE chunk.type = "start" ->
            [same EXCEPT !.messages =
               UPDATE_MESSAGE(msgs, um.id, [um EXCEPT !.status = "sent"])]
       [] chunk.type = "chunk" ->
            IF chunk.content # <<>>
            THEN LET acc == tr.accumulatedContent \o chunk.content
                 IN [same EXCEPT
                       !.accumulatedContent = acc,
                       !.messages = UPDATE_MESSAGE(msgs, am.id,
                          [am EXCEPT !.content = acc, !.status = "streaming",
                                     !.isGenerating = TRUE])]
            ELSE same
       [] chunk.type = "sources" ->
            IF chunk.sources # None
            THEN LET list == chunk.sources[1]
                     srcs == TextsOf(list)
                 IN [same EXCEPT
                       !.accumulatedSources = srcs,
                       !.messages = UPDATE_MESSAGE(msgs, am.id,
                          [am EXCEPT !.content = tr.accumulatedContent,
                                     !.sources = Some(srcs),
                                     !.status = "streaming",
                                     !.isGenerating = TRUE])]
            ELSE same
       [] chunk.type = "done" ->
            [same EXCEPT !.messages = UPDATE_MESSAGE(msgs, am.id,
               [am EXCEPT !.content = tr.accumulatedContent,
                          !.status = "completed",
                          !.isGenerating = FALSE])]
       [] chunk.type = "error" ->
            [same EXCEPT !.messages = UPDATE_MESSAGE(msgs, am.id,
               [am EXCEPT !.content = tr.accumulatedContent,
                          !.status = "error",
                          !.isGenerating = FALSE,
                          !.error = Some(errorDetail(chunk.error,
                                                     "Unknown streaming error"))])]
       [] OTHER -> same

\* sendMessage, the onChunk callback (switch on chunk.type). Gives the new
\* message list and the new accumulators of the closure tr.
onChunk(tr, msgs, chunk) ==
  LET um == tr.userMessage
      am == tr.assistantMessage
      same == [messages |-> msgs,
               accumulatedContent |-> tr.accumulatedContent,
               accumulatedSources |-> tr.accumulatedSources]
  IN CASE chunk.type = "start" ->
            [same EXCEPT !.messages =
               UPDATE_MESSAGE(msgs, um.id, [um EXCEPT !.status = "sent"])]
       [] chunk.type = "chunk" ->
            IF chunk.content # <<>>
            THEN LET acc == tr.accumulatedContent \o chunk.content
                 IN [same EXCEPT
                       !.accumulatedContent = acc,
                       !.messages = UPDATE_MESSAGE(msgs, am.id,
                          [am EXCEPT !.content = acc, !.status = "streaming",
                                     !.isGenerating = TRUE])]
            ELSE same
       [] chunk.type = "sources" ->
            IF chunk.sources # None
            THEN LET list == chunk.sources[1]
                     srcs == TextsOf(list)
                 IN [same EXCEPT
                       !.accumulatedSources = srcs,
                       !.messages = UPDATE_MESSAGE(msgs, am.id,
                          [am EXCEPT !.content = tr.accumulatedContent,
                                     !.sources = Some(srcs),
                                     !.status = "streaming",
                                     !.isGenerating = TRUE])]
            ELSE same
       [] chunk.type = "done" ->
            [same EXCEPT !.messages = UPDATE_MESSAGE(msgs, am.id,
               [am EXCEPT !.content = tr.accumulatedContent,
                          !.sources = Some(tr.accumulatedSources),
                          !.status = "completed",
                          !.isGenerating = FALSE])]
       [] chunk.type = "error" ->
            [same EXCEPT !.messages = UPDATE_MESSAGE(msgs, am.id,
               [am EXCEPT !.content = tr.accumulatedContent,
                          !.status = "error",
                          !.isGenerating = FALSE,
                          !.error = Some(errorDetail(chunk.error,
                                                     "Unknown streaming error"))])]
       [] OTHER -> same

\* sendMessage, the onError callback. userMessage is the closure's constant,
\* whose status is the one it was created with.
onError(tr, msgs, errorMessage) ==
  LET um == tr.userMessage
      am == tr.assistantMessage
      msgs1 == IF um.status = "sending"
               THEN UPDATE_MESSAGE(msgs, um.id,
                      [um EXCEPT !.status = "error",
                                 !.error = Some([message |-> "Failed to send message",
                                                 retryable |-> TRUE])])
               ELSE msgs
  IN UPDATE_MESSAGE(msgs1, am.id,
       [am EXCEPT !.content = tr.accumulatedContent,
                  !.status = "error",
                  !.isGenerating = FALSE,
                  !.error = Some(errorDetail(errorMessage, "Connection failed"))])

\* ------------------------------------------------------------ chat actions
\* useModels: fetchModels on mount.
FetchModels ==
  /\ models = <<>>
  /\ models' = ModelList
  /\ UNCHANGED <<ingestVars, taskVars, auxVars, searchMode, files, hasChat, chatModel, messages, selectedFiles, turns, now>>
  /\ ModalEffects(FALSE)

\* A file selection modal that offers every file.
availableFilesOfAnyStatus == files

\* FileSelectionModal.handleApply: the selection becomes a list of files of
\* the completed ones.
availableFiles ==
  LET done(f) == f.processingStatus = "completed" IN SelectSeq2(files, done)

ApplyFileSelection ==
  /\ hasChat
  /\ ~isLoading                     \* the attach button is disabled while loading
  /\ \E S \in SUBSET Range(IdsOf(availableFiles)) :
       LET inS(id) == id \in S
       IN /\ SelectSeq2(IdsOf(availableFiles), inS) # selectedFiles
          /\ selectedFiles' = SelectSeq2(IdsOf(availableFiles), inS)
  /\ UNCHANGED <<ingestVars, taskVars, auxVars, searchMode, files, models, hasChat, chatModel, messages, turns, now>>
  /\ ModalEffects(TRUE)

\* Files page, FileList.confirmDelete -> FileContext.deleteFile, for one file:
\* DELETE_FILE takes the file out of fileState.files; the chat's selectedFiles
\* is not touched. The chat page is not mounted meanwhile: its own state
\* (searchMode, ChatInput's modal and confirmations) starts anew when the user
\* comes back, and ChatInput's effect opens the modal if the selection needs it.
deleteFile(fileId) ==
  /\ hasChat
  /\ \E i \in DOMAIN files : files[i].id = fileId
  /\ LET keep(f) == f.id # fileId IN files' = SelectSeq2(files, keep)
  /\ UNCHANGED <<ingestVars, taskVars, auxVars, models, hasChat, chatModel, messages,
                 selectedFiles, turns, now>>
  /\ searchMode' = "selected"
  /\ userHasConfirmedFiles' = {}
  /\ showConfirmationModal' =
       /\ validation'.shouldShowModal
       /\ Len(validation'.confidentialFileNames) > 0

\* ChatInput.handleConfirmSend
handleConfirmSend ==
  /\ hasChat /\ showConfirmationModal
  /\ showConfirmationModal' = FALSE
  /\ userHasConfirmedFiles' = userHasConfirmedFiles \cup {fileKey}
  /\ UNCHANGED <<ingestVars, taskVars, auxVars, searchMode, files, models, hasChat, chatModel, messages, selectedFiles, turns, now>>

\* ChatInput.handleCancelSend: the confidential files leave the selection.
handleCancelSend ==
  /\ hasChat /\ showConfirmationModal
  /\ LET drop == {f.id : f \in {g \in Range(selectedFileObjects(selectedFiles)) :
                                  /\ g.isConfidential
                                  /\ g.id \in Range(validation.confidentialFileNames)}}
         keep(id) == id \notin drop
     IN /\ selectedFiles' = SelectSeq2(selectedFiles, keep)
        /\ UNCHANGED <<ingestVars, taskVars, auxVars, searchMode, files, models, hasChat, chatModel, messages, turns, now>>
        /\ userHasConfirmedFiles' = IF drop # {} THEN {} ELSE userHasConfirmedFiles
        /\ showConfirmationModal' =
             /\ validation'.shouldShowModal
             /\ Len(validation'.confidentialFileNames) > 0
             /\ fileKey' \notin userHasConfirmedFiles'

\* The first turn not yet used.
FreeTurn == CHOOSE t \in Turns : turns[t].pc = "none" /\ \A u \in 1..(t - 1) : turns[u].pc # "none"

\* types: enum SearchMode
SearchModes == {"selected", "hybrid", "all"}

\* ChatContext: state.searchMode. Its initial value is SearchMode.ALL and
\* SET_SEARCH_MODE is dispatched only by the context's setSearchMode, which no
\* component calls: the page keeps its own searchMode.
stateSearchMode == "all"

\* Chat page: handleSearchModeChange, from the header's dropdown.
handleSearchModeChange(mode) ==
  /\ searchMode' = mode
  /\ mode # searchMode
  /\ UNCHANGED <<ingestVars, taskVars, auxVars, files, models, hasChat, chatModel, messages,
                 selectedFiles, showConfirmationModal, userHasConfirmedFiles, turns, now>>

\* ChatInput.handleSubmit -> ChatDialog.handleSendMessage -> sendMessage, up to
\* its first await: both messages are added, the selection is cleared, the user
\* message is set to sending and StreamingChatService.streamMessage issues the
\* fetch of chatAPI.sendMessageStream.
handleSubmit(maxTurns) ==
  /\ hasChat
  /\ ~isLoading                                     \* canSend
  /\ \E t \in 1..maxTurns : turns[t].pc = "none"
  /\ \E time \in now..MaxClock : now' = time     \* Date.now(), a wall clock
  /\ LET t == FreeTurn
         attached == selectedFileObjects(selectedFiles)
         documentIds == IdsOf(attached)
         userMessage == Message(now', "user", <<"q">>, "pending", FALSE, None, None,
                                documentIds)
         assistantMessage == Message(now' + 1, "assistant", <<>>, "streaming", TRUE,
                                     None, None, <<>>)
         msgs1 == ADD_MESSAGE(messages, userMessage)
         msgs2 == ADD_MESSAGE(msgs1, assistantMessage)
         msgs3 == UPDATE_MESSAGE(msgs2, userMessage.id,
                                 [userMessage EXCEPT !.status = "sending"])
     IN /\ messages' = msgs3
        /\ selectedFiles' = <<>>
        /\ turns' = [turns EXCEPT ![t] =
             [NoTurn EXCEPT
                !.pc = "fetching",
                !.userMessage = userMessage,
                !.assistantMessage = assistantMessage,
                !.request = [model |-> chatModel,
                             attachments |-> documentIds,
                             confidential |-> {f.id : f \in {g \in Range(attached) :
                                                              g.isConfidential}},
                             modalOpen |-> showConfirmationModal,
                             searchMode |-> stateSearchMode,
                             selected |-> selectedFiles],
                !.userIdx = Len(messages) + 1,
                !.asstIdx = Len(messages) + 2]]
  /\ UNCHANGED <<ingestVars, taskVars, auxVars, searchMode, files, models, hasChat, chatModel>>
  /\ ModalEffects(selectedFiles # <<>>)

\* error.message of the Error thrown by sendMessageStream, and of the TypeError
\* a rejected read gives.
HttpErrorText == "HTTP error! status: 500"
ReadErrorText == "network error"

\* streamMessage: sendMessageStream throws (network failure, response not ok)
\* or the response has no body: caught, onError is called, cleanup.
FetchFails(t) ==
  /\ turns[t].pc = "fetching"
  /\ messages' = onError(turns[t], messages, HttpErrorText)
  /\ turns' = [turns EXCEPT ![t].pc = "ended",
                            ![t].errored = TRUE,
                            ![t].contentAtError = turns[t].accumulatedContent]
  /\ UNCHANGED <<ingestVars, taskVars, auxVars, searchMode, files, models, hasChat, chatModel, selectedFiles,
                 showConfirmationModal, userHasConfirmedFiles, now>>

\* streamMessage: the response arrives and the reader is taken.
FetchResponds(t) ==
  /\ turns[t].pc = "fetching"
  /\ turns' = [turns EXCEPT ![t].pc = "reading"]
  /\ UNCHANGED <<ingestVars, taskVars, auxVars, searchMode, files, models, hasChat, chatModel, messages, selectedFiles,
                 showConfirmationModal, userHasConfirmedFiles, now>>

RECURSIVE SumEvents(_)
SumEvents(n) == IF n = 0 THEN 0 ELSE turns[n].nEvents + SumEvents(n - 1)
EventsDelivered == SumEvents(MaxTurns)

\* streamMessage: one 'data: ' line of a read is parsed and handed to onChunk;
\* after a done event the function returns.
Deliver(t, chunk) ==
  /\ turns[t].pc = "reading"
  /\ EventsDelivered < MaxEvents
  /\ LET r == onChunk(turns[t], messages, chunk)
     IN /\ messages' = r.messages
        /\ turns' = [turns EXCEPT
             ![t].accumulatedContent = r.accumulatedContent,
             ![t].accumulatedSources = r.accumulatedSources,
             ![t].nEvents = @ + 1,
             ![t].pc = IF chunk.type = "done" THEN "ended" ELSE @,
             ![t].retrieved =
                IF chunk.type = "sources" /\ chunk.sources # None
                THEN chunk.sources[1] ELSE @,
             ![t].errored = @ \/ chunk.type = "error",
             ![t].contentAtError =
                IF chunk.type = "error" /\ ~turns[t].errored
                THEN turns[t].accumulatedContent ELSE @]
  /\ UNCHANGED <<ingestVars, taskVars, auxVars, searchMode, files, models, hasChat, chatModel, selectedFiles,
                 showConfirmationModal, userHasConfirmedFiles, now>>

\* streamMessage: reader.read() gives done (the stream closed): break, cleanup.
ReadDone(t) ==
  /\ turns[t].pc = "reading"
  /\ turns' = [turns EXCEPT ![t].pc = "ended"]
  /\ UNCHANGED <<ingestVars, taskVars, auxVars, searchMode, files, models, hasChat, chatModel, messages, selectedFiles,
                 showConfirmationModal, userHasConfirmedFiles, now>>

\* streamMessage: reader.read() rejects (connection lost): onError, cleanup.
ReadFails(t) ==
  /\ turns[t].pc = "reading"
  /\ messages' = onError(turns[t], messages, ReadErrorText)
  /\ turns' = [turns EXCEPT ![t].pc = "ended",
                            ![t].errored = TRUE,
                            ![t].contentAtError =
                               IF turns[t].errored THEN @ ELSE turns[t].accumulatedContent]
  /\ UNCHANGED <<ingestVars, taskVars, auxVars, searchMode, files, models, hasChat, chatModel, selectedFiles,
                 showConfirmationModal, userHasConfirmedFiles, now>>

\* StreamingChatService.abort: controller.abort() reaches nothing, the signal is
\* not given to fetch. cleanup releases the reader if there is one: the pending
\* read is then rejected with a TypeError (which streamMessage hands to onError),
\* or, where releaseLock refuses while a read is pending, abort itself throws
\* and the stream goes on.
abort(t) ==
  /\ turns[t].pc \in {"fetching", "reading"}
  /\ ~turns[t].aborted
  /\ \/ /\ turns[t].pc = "fetching"
        /\ messages' = messages
        /\ turns' = [turns EXCEPT ![t].aborted = TRUE,
                                  ![t].contentAtAbort = turns[t].accumulatedContent]
     \/ /\ turns[t].pc = "reading"
        /\ \E rejects \in BOOLEAN :
             IF rejects
             THEN /\ messages' = onError(turns[t], messages, ReadErrorText)
                  /\ turns' = [turns EXCEPT
                       ![t].pc = "ended",
                       ![t].aborted = TRUE,
                       ![t].contentAtAbort = turns[t].accumulatedContent,
                       ![t].errored = TRUE,
                       ![t].contentAtError =
                          IF turns[t].errored THEN @ ELSE turns[t].accumulatedContent]
             ELSE /\ messages' = messages
                  /\ turns' = [turns EXCEPT
                       ![t].aborted = TRUE,
                       ![t].contentAtAbort = turns[t].accumulatedContent]
  /\ UNCHANGED <<ingestVars, taskVars, auxVars, searchMode, files, models, hasChat, chatModel, selectedFiles,
                 showConfirmationModal, userHasConfirmedFiles, now>>

\* The state once FileProvider.loadFiles and ChatProvider.loadChats have
\* answered: the file list is the backend's, the first session is selected, and
\* its model is the one the backend stores for it. The model list is still
\* being fetched.
ChatInit ==
  /\ files = [i \in DOMAIN BackendDocuments |-> transformBackendFile(BackendDocuments[i])]
  /\ models = <<>>
  /\ hasChat = TRUE
  /\ chatModel \in ModelIds
  /\ messages = <<>>
  /\ selectedFiles = <<>>
  /\ showConfirmationModal = FALSE
  /\ userHasConfirmedFiles = {}
  /\ turns = [t \in Turns |-> NoTurn]
  /\ now = 1
  /\ searchMode = "selected"

\* The response side of a turn.
StreamNext ==
  \/ \E t \in Turns : FetchFails(t)
  \/ \E t \in Turns : FetchResponds(t)
  \/ \E t \in Turns : \E chunk \in StreamChunks : Deliver(t, chunk)
  \/ \E t \in Turns : ReadDone(t)
  \/ \E t \in Turns : ReadFails(t)
  \/ \E t \in Turns : abort(t)

\* The input UI of the chat.
InputNext ==
  \/ FetchModels
  \/ ApplyFileSelection
  \/ handleConfirmSend
  \/ handleCancelSend
  \/ \E mode \in SearchModes : handleSearchModeChange(mode)

\* ============================================================ upload dialog
MaxFiles == 3      \* File objects picked in the upload dialog
MaxJobs == 1       \* handleUpload invocations alive at once

Jobs == 1..MaxJobs

\* mock/fileUploadMocks simulateFileProcessing: the phases and their step sizes.
Phases == <<"upload", "text_extraction", "chunking", "vectorization">>
StepSizes == <<10, 20, 25, 15>>

PdfType == "application/pdf"
MaxFileSize == 52428800
FileInputs ==
  {[type |-> ty, size |-> sz] : ty \in {PdfType, "text/plain"}, sz \in {1024, MaxFileSize + 1}}

validateFile(file) ==
  IF file.type # PdfType THEN Some("Only PDF files are allowed")
  ELSE IF file.size > MaxFileSize THEN Some("File size must be less than 50MB")
  ELSE None

ProcessingFailedText == "Processing failed. Click to retry."

\* prev.map((f, i) => i === index ? update(f) : f)
MapAt(list, index, update(_)) ==
  IF list = <<>> THEN <<>>
  ELSE [i \in DOMAIN list |-> IF i = index THEN update(list[i]) ELSE list[i]]

RemoveAt(list, index) ==
  SubSeq(list, 1, index - 1) \o SubSeq(list, index + 1, Len(list))

\* What a handleUpload closure reads of the list it was created with: the File
\* objects, in order.
FileObjects(list) ==
  IF list = <<>> THEN <<>> ELSE [i \in DOMAIN list |-> list[i].file]

IdleJob ==
  [ pc |-> "idle", index |-> None, selectedFiles |-> <<>>, i |-> 0,
    phase |-> 0, progress |-> 0, privacySetting |-> "public" ]

FreeJob == CHOOSE j \in Jobs : jobs[j].pc = "idle"

\* handleUpload: const currentIndex = typeof index === 'number' ? index : i
currentIndex(job) == IF job.index # None THEN job.index[1] ELSE job.i
filesToUploadLength(job) == IF job.index # None THEN 1 ELSE Len(job.selectedFiles)

MarkProcessing(f) == [f EXCEPT !.status = "processing", !.processingPhase = Some("upload")]
PhaseStart(list, index, phase) ==
  MapAt(list, index, LAMBDA f : [f EXCEPT !.processingPhase = Some(phase), !.progress = 0])

\* AppContext: the upload button toggles the dialog; a new dialog instance
\* starts from its initial state. The state updates of the jobs of an
\* unmounted instance reach no state any more, so its jobs are dropped.
Unmount ==
  /\ filesWithProgress' = <<>>
  /\ isUploading' = FALSE
  /\ privacySetting' = "public"
  /\ jobs' = [j \in Jobs |-> IdleJob]

ToggleUpload ==
  /\ showUpload' = ~showUpload
  /\ Unmount
  /\ UNCHANGED <<lastUploadCall, nextFileId, chatVars, taskVars, auxVars>>

setPrivacySetting(value) ==
  /\ showUpload
  /\ privacySetting # value
  /\ privacySetting' = value
  /\ UNCHANGED <<showUpload, filesWithProgress, isUploading, jobs, lastUploadCall,
                 nextFileId, chatVars, taskVars, auxVars>>

handleFileSelect(file) ==
  /\ showUpload
  /\ nextFileId <= MaxFiles
  /\ nextFileId' = nextFileId + 1
  /\ filesWithProgress' =
       IF validateFile(file) # None THEN filesWithProgress
       ELSE Append(filesWithProgress,
                   [ file |-> nextFileId, progress |-> 0, status |-> "pending",
                     error |-> None, processingPhase |-> Some("upload") ])
  /\ UNCHANGED <<showUpload, isUploading, privacySetting, jobs, lastUploadCall,
                 chatVars, taskVars, auxVars>>

removeFile(index) ==
  /\ showUpload
  /\ index \in DOMAIN filesWithProgress
  /\ filesWithProgress[index].status \notin {"processing", "failed"}
  /\ filesWithProgress' = RemoveAt(filesWithProgress, index)
  /\ UNCHANGED <<showUpload, isUploading, privacySetting, jobs, lastUploadCall,
                 nextFileId, chatVars, taskVars, auxVars>>

\* The body of handleUpload up to its first timeout, run on the list `list`.
StartUpload(list, index) ==
  LET job == [ IdleJob EXCEPT !.pc = "progress", !.index = index,
                 !.selectedFiles = FileObjects(filesWithProgress), !.i = 1,
                 !.phase = 1,
                 !.privacySetting = privacySetting ]
      cur == currentIndex(job)
  IN /\ \E j \in Jobs : jobs[j].pc = "idle"
     /\ isUploading' = TRUE
     /\ filesWithProgress' =
          PhaseStart(MapAt(list, cur, MarkProcessing), cur, Phases[1])
     /\ jobs' = [jobs EXCEPT ![FreeJob] = job]
     /\ UNCHANGED <<showUpload, privacySetting, lastUploadCall, nextFileId,
                    chatVars, taskVars, auxVars>>

handleUpload ==
  /\ showUpload
  /\ filesWithProgress # <<>>
  /\ ~isUploading
  /\ StartUpload(filesWithProgress, None)

retryProcessing(index) ==
  /\ showUpload
  /\ index \in DOMAIN filesWithProgress
  /\ filesWithProgress[index].status = "failed"
  /\ StartUpload(
       MapAt(filesWithProgress, index,
             LAMBDA f : [f EXCEPT !.status = "pending", !.error = None]),
       Some(index))

\* A phase loop that hands over to the next phase half way.
PhaseTickHandingOverEarly(j) ==
  LET job == jobs[j]
      cur == currentIndex(job)
      written == MapAt(filesWithProgress, cur,
                       LAMBDA f : [f EXCEPT !.progress = job.progress])
      next == job.progress + StepSizes[job.phase]
  IN /\ job.pc = "progress"
     /\ IF next <= 50
        THEN /\ filesWithProgress' = written
             /\ jobs' = [jobs EXCEPT ![j].progress = next]
        ELSE IF job.phase < Len(Phases)
        THEN /\ filesWithProgress' =
                  PhaseStart(written, cur, Phases[job.phase + 1])
             /\ jobs' = [jobs EXCEPT ![j].phase = job.phase + 1, ![j].progress = 0]
        ELSE /\ filesWithProgress' = written
             /\ jobs' = [jobs EXCEPT ![j].pc = "uploading"]
     /\ UNCHANGED <<showUpload, isUploading, privacySetting, lastUploadCall,
                    nextFileId, chatVars, taskVars, auxVars>>

\* simulatePhaseProgress: one timeout of the loop elapses.
PhaseTick(j) ==
  LET job == jobs[j]
      cur == currentIndex(job)
      written == MapAt(filesWithProgress, cur,
                       LAMBDA f : [f EXCEPT !.progress = job.progress])
      next == job.progress + StepSizes[job.phase]
  IN /\ job.pc = "progress"
     /\ IF next <= 100
        THEN /\ filesWithProgress' = written
             /\ jobs' = [jobs EXCEPT ![j].progress = next]
        ELSE IF job.phase < Len(Phases)
        THEN /\ filesWithProgress' =
                  PhaseStart(written, cur, Phases[job.phase + 1])
             /\ jobs' = [jobs EXCEPT ![j].phase = job.phase + 1, ![j].progress = 0]
        ELSE /\ filesWithProgress' = written
             /\ jobs' = [jobs EXCEPT ![j].pc = "uploading"]
     /\ UNCHANGED <<showUpload, isUploading, privacySetting, lastUploadCall,
                    nextFileId, chatVars, taskVars, auxVars>>

\* handleUpload's call uploadFile(fileData, privacySetting === 'public', ...)
\* reaching fileAPI.uploadFile(file, isConfidential).
uploadFile(file, isConfidential) ==
  [ file |-> file,
    confidentiality |-> IF isConfidential THEN "confidential" ELSE "public" ]

UploadCallOf(job) ==
  uploadFile(job.selectedFiles[currentIndex(job)], job.privacySetting = "public")

MarkCompleted(f) ==
  [f EXCEPT !.status = "completed", !.processingPhase = None, !.progress = 100]

UploadSucceeds(j) ==
  LET job == jobs[j]
      cur == currentIndex(job)
      completed == MapAt(filesWithProgress, cur, MarkCompleted)
  IN /\ job.pc = "uploading"
     /\ lastUploadCall' = Some(UploadCallOf(job))
     /\ IF job.i < filesToUploadLength(job)
        THEN /\ filesWithProgress' =
                  PhaseStart(MapAt(completed, job.i + 1, MarkProcessing),
                                   job.i + 1, Phases[1])
             /\ jobs' = [jobs EXCEPT ![j].pc = "progress", ![j].i = job.i + 1,
                                     ![j].phase = 1, ![j].progress = 0]
        ELSE /\ filesWithProgress' = completed
             /\ jobs' = [jobs EXCEPT ![j].pc = "closing"]
     /\ UNCHANGED <<showUpload, isUploading, privacySetting, nextFileId,
                    chatVars, taskVars, auxVars>>

MarkFailed(f) ==
  [f EXCEPT !.status = "failed", !.error = Some(ProcessingFailedText),
            !.processingPhase = None]

\* The catch block of handleUpload.
UploadFails(j) ==
  LET job == jobs[j]
      failedIndex == IF job.index # None THEN job.index[1] ELSE Len(job.selectedFiles)
  IN /\ job.pc = "uploading"
     /\ lastUploadCall' = Some(UploadCallOf(job))
     /\ filesWithProgress' =
          MapAt(filesWithProgress, failedIndex, MarkFailed)
     /\ isUploading' = FALSE
     /\ jobs' = [jobs EXCEPT ![j] = IdleJob]
     /\ UNCHANGED <<showUpload, privacySetting, nextFileId, chatVars, taskVars, auxVars>>

\* The timeout handleUpload sets after its last file: onClose() and the resets.
CloseAfterUpload(j) ==
  /\ jobs[j].pc = "closing"
  /\ showUpload' = FALSE
  /\ Unmount
  /\ UNCHANGED <<lastUploadCall, nextFileId, chatVars, taskVars, auxVars>>

IngestInit ==
  /\ showUpload = FALSE
  /\ filesWithProgress = <<>>
  /\ isUploading = FALSE
  /\ privacySetting = "public"
  /\ jobs = [j \in Jobs |-> IdleJob]
  /\ lastUploadCall = None
  /\ nextFileId = 1

IngestNext ==
  \/ ToggleUpload
  \/ \E value \in {"public", "confidential"} : setPrivacySetting(value)
  \/ \E file \in FileInputs : handleFileSelect(file)
  \/ \E index \in 1..MaxFiles : removeFile(index)
  \/ handleUpload
  \/ \E index \in 1..MaxFiles : retryProcessing(index)
  \/ \E j \in Jobs : PhaseTick(j)
  \/ \E j \in Jobs : UploadSucceeds(j)
  \/ \E j \in Jobs : UploadFails(j)
  \/ \E j \in Jobs : CloseAfterUpload(j)

\* ========================================================= processing task
\* The backend's task of one document, as the frontend's ProcessingProgress
\* declares it; the steps and their bands are those of the processing pipeline.
MaxTaskRuns == 2   \* tasks created for the one document (first run and retries)
ProgressStep == 10 \* granularity of step-local progress writes

Steps == <<"uploading", "extracting", "chunking", "vectorizing">>
StepProgressField ==
  [ uploading |-> "upload_progress", extracting |-> "extraction_progress",
    chunking |-> "chunking_progress", vectorizing |-> "vectorization_progress" ]
BandWidth == 25
StepIndex(status) == CHOOSE k \in DOMAIN Steps : Steps[k] = status
BandStart(status) == (StepIndex(status) - 1) * BandWidth
Running == {Steps[k] : k \in DOMAIN Steps}

NewTask ==
  [ status |-> "pending", current_step |-> None, progress_percentage |-> 0,
    error_message |-> None, upload_progress |-> 0, extraction_progress |-> 0,
    chunking_progress |-> 0, vectorization_progress |-> 0 ]

TaskStart ==
  /\ task.status = "pending"
  /\ task' = [task EXCEPT !.status = Steps[1], !.current_step = Some(Steps[1])]
  /\ UNCHANGED <<taskId, documentProcessed, chatVars, ingestVars, auxVars>>

\* A step update writes the step-local progress and the overall progress
\* band_start + local * band_width / 100.
TaskStepUpdate(local) ==
  /\ task.status \in Running
  /\ local > task[StepProgressField[task.status]]
  /\ task' = [task EXCEPT
                ![StepProgressField[task.status]] = local,
                !.progress_percentage =
                   BandStart(task.status) + (local * BandWidth) \div 100]
  /\ UNCHANGED <<taskId, documentProcessed, chatVars, ingestVars, auxVars>>

\* A finished step hands over to the next one; the last one completes the task
\* and marks the document processed.
TaskStepDone ==
  /\ task.status \in Running
  /\ task[StepProgressField[task.status]] = 100
  /\ IF StepIndex(task.status) < Len(Steps)
     THEN /\ task' = [task EXCEPT
                        !.status = Steps[StepIndex(task.status) + 1],
                        !.current_step = Some(Steps[StepIndex(task.status) + 1])]
          /\ UNCHANGED documentProcessed
     ELSE /\ task' = [task EXCEPT !.status = "completed", !.current_step = None,
                                  !.progress_percentage = 100]
          /\ documentProcessed' = TRUE
  /\ UNCHANGED <<taskId, chatVars, ingestVars, auxVars>>

\* A failure that re-initialises the task record.
TaskFailAsResetting ==
  /\ task.status \in Running \cup {"pending"}
  /\ task' = [NewTask EXCEPT !.status = "failed",
                             !.current_step = task.current_step,
                             !.error_message = Some("processing error")]
  /\ UNCHANGED <<taskId, documentProcessed, chatVars, ingestVars, auxVars>>

\* An exception during a step: the task fails, records the error, and nothing
\* else of it or of the document changes.
TaskFail ==
  /\ task.status \in Running \cup {"pending"}
  /\ task' = [task EXCEPT !.status = "failed",
                          !.error_message = Some("processing error")]
  /\ UNCHANGED <<taskId, documentProcessed, chatVars, ingestVars, auxVars>>

\* A retry creates a new task for the same document, starting from pending.
TaskRetry ==
  /\ task.status = "failed"
  /\ taskId < MaxTaskRuns
  /\ taskId' = taskId + 1
  /\ task' = NewTask
  /\ UNCHANGED <<documentProcessed, chatVars, ingestVars, auxVars>>

TaskInit ==
  /\ task = NewTask
  /\ taskId = 1
  /\ documentProcessed = FALSE

TaskNext ==
  \/ TaskStart
  \/ \E k \in 1..(100 \div ProgressStep) : TaskStepUpdate(k * ProgressStep)
  \/ TaskStepDone
  \/ TaskFail
  \/ TaskRetry

\* ======================================================= the stream reader
MaxBytes == 5      \* length of a response body

\* The characters of a body: "D" stands for the prefix 'data: ', "a" for the
\* JSON text of an event, "z" for the JSON text of a done event, "\n" for the
\* line feed.
Bytes == {"D", "a", "z", "\n"}

RECURSIVE SeqsUpTo(_)
SeqsUpTo(n) ==
  IF n = 0 THEN {<<>>}
  ELSE LET shorter == SeqsUpTo(n - 1)
       IN shorter \cup {Append(q, b) : q \in {r \in shorter : Len(r) = n - 1}, b \in Bytes}

Bodies == SeqsUpTo(MaxBytes)

\* String.prototype.split('\n'): the pieces between the line feeds.
RECURSIVE split(_)
split(text) ==
  IF text = <<>> THEN << <<>> >>
  ELSE LET front == split(SubSeq(text, 1, Len(text) - 1))
           c == text[Len(text)]
       IN IF c = "\n" THEN Append(front, <<>>)
          ELSE [front EXCEPT ![Len(front)] = Append(@, c)]

\* streamMessage, the body of `for (const line of lines)` with its return
\* after a done chunk: the chunks handed to onChunk, and whether it returned.
RECURSIVE forLines(_, _)
forLines(lines, out) ==
  IF lines = <<>> THEN [chunks |-> out, returned |-> FALSE]
  ELSE LET line == Head(lines)
           data == Tail(line)
       IN IF Len(line) >= 1 /\ line[1] = "D" /\ data # <<>>
          THEN IF data[1] = "z"
               THEN [chunks |-> Append(out, data), returned |-> TRUE]
               ELSE forLines(Tail(lines), Append(out, data))
          ELSE forLines(Tail(lines), out)

\* chatAPI.sendMessageStream responds with a body; the reader is taken.
OpenStream(bytes) ==
  /\ readerPc = "idle"
  /\ body' = bytes
  /\ unread' = bytes
  /\ buffer' = <<>>
  /\ delivered' = <<>>
  /\ readerPc' = "reading"
  /\ UNCHANGED <<chatVars, ingestVars, taskVars, sessionVars, healthVars>>

\* One pass of the while loop whose read gives n bytes: the buffer is extended,
\* split at the line feeds, its last piece is kept and the others are handled.
ReadValue(n) ==
  /\ readerPc = "reading"
  /\ n \in 1..Len(unread)
  /\ LET lines == split(buffer \o SubSeq(unread, 1, n))
         r == forLines(SubSeq(lines, 1, Len(lines) - 1), delivered)
     IN /\ buffer' = lines[Len(lines)]
        /\ delivered' = r.chunks
        /\ readerPc' = IF r.returned THEN "returned" ELSE "reading"
  /\ unread' = SubSeq(unread, n + 1, Len(unread))
  /\ UNCHANGED <<body, chatVars, ingestVars, taskVars, sessionVars, healthVars>>

\* The read gives done: break, and streamMessage returns.
ReadEnd ==
  /\ readerPc = "reading"
  /\ unread = <<>>
  /\ readerPc' = "returned"
  /\ UNCHANGED <<body, unread, buffer, delivered, chatVars, ingestVars, taskVars, sessionVars, healthVars>>

ReadInit ==
  /\ body = <<>>
  /\ unread = <<>>
  /\ buffer = <<>>
  /\ delivered = <<>>
  /\ readerPc = "idle"

ReadNext ==
  \/ \E bytes \in Bodies : OpenStream(bytes)
  \/ \E n \in 1..MaxBytes : ReadValue(n)
  \/ ReadEnd

\* ======================================================== the chat sessions
MaxUpdates == 2          \* updateSessionModel / updateChat calls awaiting the backend
MaxSessionMessages == 1  \* messages the turns add to the chats

Updates == 1..MaxUpdates
Titles == {"New Chat", "Renamed"}

\* chatService.loadAllSessions: the sessions of the backend with their messages.
LoadedChats ==
  << [id |-> 1, title |-> "New Chat", model |-> "mistral", messages |-> <<>>],
     [id |-> 2, title |-> "New Chat", model |-> "mistral", messages |-> <<>>] >>

\* state.chats.find(c => c.id === chatId)
HasChat(chatId) == \E i \in DOMAIN chats : chats[i].id = chatId
FindChat(chatId) == chats[CHOOSE i \in DOMAIN chats :
                            /\ chats[i].id = chatId
                            /\ \A k \in 1..(i - 1) : chats[k].id # chatId]

\* chatReducer, case 'UPDATE_CHAT'
UPDATE_CHAT(chat) ==
  /\ chats' = [i \in DOMAIN chats |-> IF chats[i].id = chat.id THEN chat ELSE chats[i]]
  /\ currentChat' = IF currentChat # None /\ currentChat[1].id = chat.id
                    THEN Some(chat) ELSE currentChat

\* chatReducer, case 'DELETE_CHAT'
DELETE_CHAT(chatId) ==
  /\ LET keep(c) == c.id # chatId IN chats' = SelectSeq2(chats, keep)
  /\ currentChat' = IF currentChat # None /\ currentChat[1].id = chatId
                    THEN (IF chats # <<>> THEN Some(chats[1]) ELSE None)
                    ELSE currentChat

\* chatReducer, cases 'ADD_MESSAGE' and 'UPDATE_MESSAGE': the messages of the
\* chat chatId are changed in chats and, if it is the current chat, in currentChat.
InChat(chat, chatId, msgs) == IF chat.id = chatId THEN [chat EXCEPT !.messages = msgs] ELSE chat

DispatchAddMessage(chatId, message) ==
  /\ chats' = [i \in DOMAIN chats |->
                 InChat(chats[i], chatId, ADD_MESSAGE(chats[i].messages, message))]
  /\ currentChat' =
       IF currentChat = None THEN None
       ELSE Some(InChat(currentChat[1], chatId,
                        ADD_MESSAGE(currentChat[1].messages, message)))

DispatchUpdateMessage(chatId, messageId, message) ==
  /\ chats' = [i \in DOMAIN chats |->
                 InChat(chats[i], chatId,
                        UPDATE_MESSAGE(chats[i].messages, messageId, message))]
  /\ currentChat' =
       IF currentChat = None THEN None
       ELSE Some(InChat(currentChat[1], chatId,
                        UPDATE_MESSAGE(currentChat[1].messages, messageId, message)))

IdleUpdate == [pc |-> "idle", kind |-> "model", chat |-> LoadedChats[1], value |-> "mistral"]
FreeUpdate == CHOOSE u \in Updates : updates[u].pc = "idle"

\* loadChats, on mount of the provider.
loadChats ==
  /\ ~chatsLoaded
  /\ chatsLoaded' = TRUE
  /\ chats' = LoadedChats
  /\ currentChat' = IF LoadedChats # <<>> THEN Some(LoadedChats[1]) ELSE None
  /\ chatError' = None
  /\ UNCHANGED <<updates, openTurns, nextMessageId, chatVars, ingestVars, taskVars, readVars,
                 healthVars>>

selectChat(chatId) ==
  /\ chatsLoaded
  /\ currentChat' = IF HasChat(chatId) THEN Some(FindChat(chatId)) ELSE None
  /\ currentChat' # currentChat
  /\ UNCHANGED <<chatsLoaded, chats, chatError, updates, openTurns, nextMessageId,
                 chatVars, ingestVars, taskVars, readVars,
                 healthVars>>

\* sendMessage on the current chat, as far as the chat list sees it: the
\* assistant message is added with status streaming.
TurnStarts ==
  /\ currentChat # None
  /\ nextMessageId <= MaxSessionMessages
  /\ DispatchAddMessage(currentChat[1].id, [id |-> nextMessageId, status |-> "streaming"])
  /\ openTurns' = openTurns \cup {<<currentChat[1].id, nextMessageId>>}
  /\ nextMessageId' = nextMessageId + 1
  /\ UNCHANGED <<chatsLoaded, chatError, updates, chatVars, ingestVars, taskVars, readVars,
                 healthVars>>

\* The done event of a turn: its message is completed.
TurnCompletes(turn) ==
  /\ turn \in openTurns
  /\ DispatchUpdateMessage(turn[1], turn[2], [id |-> turn[2], status |-> "completed"])
  /\ openTurns' = openTurns \ {turn}
  /\ UNCHANGED <<chatsLoaded, chatError, updates, nextMessageId,
                 chatVars, ingestVars, taskVars, readVars,
                 healthVars>>

\* Chat.handleModelChange -> updateSessionModel, up to its await: the chat of
\* the list is copied with the new model and dispatched.
updateSessionModel(model) ==
  /\ currentChat # None
  /\ model # currentChat[1].model
  /\ HasChat(currentChat[1].id)
  /\ \E u \in Updates : updates[u].pc = "idle"
  /\ LET chat == FindChat(currentChat[1].id)
     IN /\ UPDATE_CHAT([chat EXCEPT !.model = model])
        /\ updates' = [updates EXCEPT ![FreeUpdate] =
                         [pc |-> "awaiting", kind |-> "model", chat |-> chat,
                          value |-> model]]
  /\ UNCHANGED <<chatsLoaded, chatError, openTurns, nextMessageId,
                 chatVars, ingestVars, taskVars, readVars,
                 healthVars>>

\* updateSessionModel: the backend call resolves. (chatService.ts holds no
\* updateSessionModel; the call is taken as the PUT of chatAPI.updateSession,
\* which resolves or rejects, as for updateSessionTitle.)
UpdateModelResolves(u) ==
  /\ updates[u].pc = "awaiting" /\ updates[u].kind = "model"
  /\ updates' = [updates EXCEPT ![u] = IdleUpdate]
  /\ UNCHANGED <<chatsLoaded, chats, currentChat, chatError, openTurns, nextMessageId,
                 chatVars, ingestVars, taskVars, readVars,
                 healthVars>>

ModelErrorText == "Failed to update model. Please choose a different model."

\* updateSessionModel: the backend call rejects: the catch block.
UpdateModelRejects(u) ==
  /\ updates[u].pc = "awaiting" /\ updates[u].kind = "model"
  /\ UPDATE_CHAT(updates[u].chat)
  /\ chatError' = Some(ModelErrorText)
  /\ updates' = [updates EXCEPT ![u] = IdleUpdate]
  /\ UNCHANGED <<chatsLoaded, openTurns, nextMessageId,
                 chatVars, ingestVars, taskVars, readVars,
                 healthVars>>

\* updateSessionModel: the timeout that clears the error.
ClearError ==
  /\ chatError = Some(ModelErrorText)
  /\ chatError' = None
  /\ UNCHANGED <<chatsLoaded, chats, currentChat, updates, openTurns, nextMessageId,
                 chatVars, ingestVars, taskVars, readVars,
                 healthVars>>

\* updateChat with a new title, up to its await.
updateChat(chatId, title) ==
  /\ HasChat(chatId)
  /\ title # FindChat(chatId).title
  /\ \E u \in Updates : updates[u].pc = "idle"
  /\ updates' = [updates EXCEPT ![FreeUpdate] =
                   [pc |-> "awaiting", kind |-> "title", chat |-> FindChat(chatId),
                    value |-> title]]
  /\ UNCHANGED <<chatsLoaded, chats, currentChat, chatError, openTurns, nextMessageId,
                 chatVars, ingestVars, taskVars, readVars,
                 healthVars>>

\* updateChat: updateSessionTitle resolves.
UpdateTitleResolves(u) ==
  /\ updates[u].pc = "awaiting" /\ updates[u].kind = "title"
  /\ UPDATE_CHAT([updates[u].chat EXCEPT !.title = updates[u].value])
  /\ updates' = [updates EXCEPT ![u] = IdleUpdate]
  /\ UNCHANGED <<chatsLoaded, chatError, openTurns, nextMessageId,
                 chatVars, ingestVars, taskVars, readVars,
                 healthVars>>

\* updateChat: updateSessionTitle rejects: the catch block.
UpdateTitleRejects(u) ==
  /\ updates[u].pc = "awaiting" /\ updates[u].kind = "title"
  /\ chatError' = Some("Failed to update chat")
  /\ UPDATE_CHAT(updates[u].chat)
  /\ updates' = [updates EXCEPT ![u] = IdleUpdate]
  /\ UNCHANGED <<chatsLoaded, openTurns, nextMessageId,
                 chatVars, ingestVars, taskVars, readVars,
                 healthVars>>

\* deleteChat: deleteSession resolves and DELETE_CHAT is dispatched.
deleteChat(chatId) ==
  /\ HasChat(chatId)
  /\ DELETE_CHAT(chatId)
  /\ UNCHANGED <<chatsLoaded, chatError, updates, openTurns, nextMessageId,
                 chatVars, ingestVars, taskVars, readVars,
                 healthVars>>

\* deleteChat: deleteSession rejects.
deleteChatFails(chatId) ==
  /\ HasChat(chatId)
  /\ chatError' = Some("Failed to delete chat session")
  /\ chatError' # chatError
  /\ UNCHANGED <<chatsLoaded, chats, currentChat, updates, openTurns, nextMessageId,
                 chatVars, ingestVars, taskVars, readVars,
                 healthVars>>

SessionInit ==
  /\ chatsLoaded = FALSE
  /\ chats = <<>>
  /\ currentChat = None
  /\ chatError = None
  /\ updates = [u \in Updates |-> IdleUpdate]
  /\ openTurns = {}
  /\ nextMessageId = 1

ChatIds == {LoadedChats[i].id : i \in DOMAIN LoadedChats}

SessionNext ==
  \/ loadChats
  \/ \E chatId \in ChatIds : selectChat(chatId)
  \/ TurnStarts
  \/ \E turn \in openTurns : TurnCompletes(turn)
  \/ \E model \in ModelIds : updateSessionModel(model)
  \/ \E u \in Updates : UpdateModelResolves(u) \/ UpdateModelRejects(u)
  \/ ClearError
  \/ \E chatId \in ChatIds, title \in Titles : updateChat(chatId, title)
  \/ \E u \in Updates : UpdateTitleResolves(u) \/ UpdateTitleRejects(u)
  \/ \E chatId \in ChatIds : deleteChat(chatId) \/ deleteChatFails(chatId)

\* ===================================================== backend health checks
MaxConsumers == 2   \* components using useBackendStatus
MaxChecks == 3      \* checkHealth calls

Consumers == 1..MaxConsumers
Checks == 1..MaxChecks

\* HealthStatus without lastChecked.
HealthStatus(isHealthy, error) == [isHealthy |-> isHealthy, error |-> error]
InitialStatus == HealthStatus(FALSE, None)

\* checkHealth: the statuses it can store, by outcome of the GET /health.
HealthOutcomes ==
  { HealthStatus(TRUE, None),
    HealthStatus(FALSE, Some("Invalid response from server")),
    HealthStatus(FALSE, Some("Backend server not reachable")) }

Unmounted ==
  [mounted |-> FALSE, enableAutoCheck |-> FALSE, status |-> InitialStatus,
   isChecking |-> FALSE]
NoCheck == [pc |-> "none", by |-> None, result |-> InitialStatus]

\* checkHealth, up to its await: the request is issued.
StartCheck(by) ==
  /\ nextCheck <= MaxChecks
  /\ checks' = [checks EXCEPT ![nextCheck] = [NoCheck EXCEPT !.pc = "awaiting", !.by = by]]
  /\ nextCheck' = nextCheck + 1

\* useBackendStatus: the component mounts and its effect runs: subscribe (the
\* listener is called with the current status) and, with auto-check,
\* startPeriodicChecks: stopPeriodicChecks, checkHealth, setInterval.
MountConsumer(c, enableAutoCheck) ==
  /\ ~consumers[c].mounted
  /\ consumers' = [consumers EXCEPT ![c] =
                     [mounted |-> TRUE, enableAutoCheck |-> enableAutoCheck,
                      status |-> currentStatus, isChecking |-> FALSE]]
  /\ listeners' = listeners \cup {c}
  /\ IF enableAutoCheck
     THEN /\ StartCheck(None)
          /\ checkInterval' = TRUE
     ELSE UNCHANGED <<checks, nextCheck, checkInterval>>
  /\ UNCHANGED <<currentStatus, chatVars, ingestVars, taskVars, readVars, sessionVars>>

\* useBackendStatus: the effect's cleanup: unsubscribe and, with auto-check,
\* stopPeriodicChecks.
UnmountConsumer(c) ==
  /\ consumers[c].mounted
  /\ consumers' = [consumers EXCEPT ![c] = Unmounted]
  /\ listeners' = listeners \ {c}
  /\ checkInterval' = IF consumers[c].enableAutoCheck THEN FALSE ELSE checkInterval
  /\ UNCHANGED <<currentStatus, checks, nextCheck,
                 chatVars, ingestVars, taskVars, readVars, sessionVars>>

\* startPeriodicChecks: the interval elapses.
IntervalFires ==
  /\ checkInterval
  /\ StartCheck(None)
  /\ UNCHANGED <<consumers, checkInterval, listeners, currentStatus,
                 chatVars, ingestVars, taskVars, readVars, sessionVars>>

\* useBackendStatus.checkNow, up to its await.
checkNow(c) ==
  /\ consumers[c].mounted
  /\ consumers' = [consumers EXCEPT ![c].isChecking = TRUE]
  /\ StartCheck(Some(c))
  /\ UNCHANGED <<checkInterval, listeners, currentStatus,
                 chatVars, ingestVars, taskVars, readVars, sessionVars>>

\* checkHealth after its await: the status of the outcome is stored and every
\* listener is called with it; a checkNow that awaited it clears isChecking.
checkHealth(k, status) ==
  /\ checks[k].pc = "awaiting"
  /\ currentStatus' = status
  /\ checks' = [checks EXCEPT ![k] = [pc |-> "done", by |-> None, result |-> status]]
  /\ consumers' =
       [c \in Consumers |->
          IF ~consumers[c].mounted THEN consumers[c]
          ELSE [consumers[c] EXCEPT
                  !.status = IF c \in listeners THEN status ELSE @,
                  !.isChecking = IF checks[k].by = Some(c) THEN FALSE ELSE @]]
  /\ UNCHANGED <<checkInterval, listeners, nextCheck,
                 chatVars, ingestVars, taskVars, readVars, sessionVars>>

HealthInit ==
  /\ consumers = [c \in Consumers |-> Unmounted]
  /\ checkInterval = FALSE
  /\ listeners = {}
  /\ currentStatus = InitialStatus
  /\ checks = [k \in Checks |-> NoCheck]
  /\ nextCheck = 1

HealthNext ==
  \/ \E c \in Consumers, enableAutoCheck \in BOOLEAN : MountConsumer(c, enableAutoCheck)
  \/ \E c \in Consumers : UnmountConsumer(c)
  \/ IntervalFires
  \/ \E c \in Consumers : checkNow(c)
  \/ \E k \in Checks, status \in HealthOutcomes : checkHealth(k, status)

\* ============================================================ composition
vars == <<chatVars, ingestVars, taskVars, auxVars>>
Init == ChatInit /\ IngestInit /\ TaskInit /\ ReadInit /\ SessionInit /\ HealthInit

\* One chat with its input UI.
Next == InputNext \/ handleSubmit(MaxUiTurns) \/ StreamNext
Spec == Init /\ [][Next]_vars

\* Several turns of one chat, sent without attachments.
NextTurns == handleSubmit(MaxTurns) \/ StreamNext
SpecTurns == Init /\ [][NextTurns]_vars

\* Selecting files for a turn while files are deleted from the file list.
NextAttach ==
  \/ InputNext
  \/ \E fileId \in {d.id : d \in Range(BackendDocuments)} : deleteFile(fileId)
  \/ handleSubmit(MaxUiTurns)
SpecAttach == Init /\ [][NextAttach]_vars

\* The upload dialog.
InitAtRest == Init /\ chatModel = "mistral"
SpecIngest == InitAtRest /\ [][IngestNext]_vars

\* The chat list with model changes, renames, deletions and turns.
SpecSessions == InitAtRest /\ [][SessionNext]_vars

\* The health check service and the components that use it.
SpecHealth == InitAtRest /\ [][HealthNext]_vars

\* The reader of one streaming response.
SpecRead == InitAtRest /\ [][ReadNext]_vars

\* The backend's processing task.
SpecTask == InitAtRest /\ [][TaskNext]_vars

\* ================================================================= properties
\* A model that the model list flags as not able to access confidential data.
ExternalModel(modelId) ==
  \E i \in DOMAIN ModelList :
    ModelList[i].id = modelId /\ ~ModelList[i].canAccessConfidential

Started(t) == turns[t].pc # "none"
UserMessageOf(t) == messages[turns[t].userIdx]
AssistantMessageOf(t) == messages[turns[t].asstIdx]
InFlight == {"pending", "sending", "streaming"}
Terminal == {"completed", "error"}

\* C1: a turn whose attachments include a confidential document and whose model
\* is external is blocked: no streaming request is issued for it and no message
\* of it is streaming. Only turns submitted while the warning modal is closed are
\* counted, the modal's overlay being in front of the input while it is open.
C1_ConfidentialTurnBlocked ==
  \A t \in Turns :
    ~( /\ Started(t)
       /\ turns[t].request.confidential # {}
       /\ ExternalModel(turns[t].request.model)
       /\ ~turns[t].request.modalOpen )

\* C2: once a turn has been cancelled, its assistant message has status error
\* and exactly the content streamed up to the cancellation.
C2_CancelKeepsPartial ==
  \A t \in Turns :
    turns[t].aborted =>
      /\ AssistantMessageOf(t).status = "error"
      /\ AssistantMessageOf(t).content = turns[t].contentAtAbort

\* C3: a turn that met an error (error event, failed read, failed request) ends
\* with its assistant message in status error, carrying the error and exactly
\* the content streamed before the error.
C3_ErrorKeepsPartial ==
  \A t \in Turns :
    (turns[t].pc = "ended" /\ turns[t].errored) =>
      /\ AssistantMessageOf(t).status = "error"
      /\ AssistantMessageOf(t).error # None
      /\ AssistantMessageOf(t).content = turns[t].contentAtError

\* C4: no stream event of a turn changes the turn's assistant message once that
\* message is completed or error.
C4_TerminalImmutable ==
  [][ \A t \in Turns : \A chunk \in StreamChunks :
        ( /\ Started(t)
          /\ AssistantMessageOf(t).status \in Terminal
          /\ Deliver(t, chunk) )
        => messages'[turns[t].asstIdx] = AssistantMessageOf(t) ]_vars

\* C5: a step of one turn (its submission or a step of its stream handler)
\* changes no message other than the two that turn created.
C5_TurnsIsolated ==
  [][ \A t \in Turns :
        turns'[t] # turns[t] =>
          \A i \in DOMAIN messages :
            i \notin {turns'[t].userIdx, turns'[t].asstIdx} =>
              messages'[i] = messages[i] ]_vars

\* C6: when the response stream of a turn has ended, neither message of the turn
\* is pending, sending or streaming (no later step of that turn could change it).
C6_EndedTurnSettled ==
  \A t \in Turns :
    turns[t].pc = "ended" =>
      /\ UserMessageOf(t).status \notin InFlight
      /\ AssistantMessageOf(t).status \notin InFlight

\* C7: a message's status only moves forward along pending, sending, streaming,
\* completed (sent, the code's name for a delivered user message, is taken as
\* lying between sending and streaming); error is entered only from sending or
\* streaming; completed and error are never left.
StatusRank(st) ==
  CASE st = "pending" -> 0 [] st = "sending" -> 1 [] st = "sent" -> 2
    [] st = "streaming" -> 3 [] st = "completed" -> 4 [] OTHER -> 5
StatusStep(old, new) ==
  \/ new = old
  \/ old \notin Terminal /\ new # "error" /\ StatusRank(new) > StatusRank(old)
  \/ old \in {"sending", "streaming"} /\ new = "error"
C7_StatusMovesForward ==
  [][ \A t \in Turns :
        Started(t) =>
          /\ StatusStep(UserMessageOf(t).status, messages'[turns[t].userIdx].status)
          /\ StatusStep(AssistantMessageOf(t).status, messages'[turns[t].asstIdx].status)
    ]_vars

\* The same File object is at position i of the dialog's list before and after
\* the step.
StaysAt(i) ==
  /\ i \in DOMAIN filesWithProgress'
  /\ filesWithProgress'[i].file = filesWithProgress[i].file

\* C8: within one run of a file (any step that is not the start of a run by
\* handleUpload or retryProcessing) the file's progress value never decreases.
C8_ProgressNeverDecreases ==
  [][ ~(handleUpload \/ \E index \in 1..MaxFiles : retryProcessing(index)) =>
        \A i \in DOMAIN filesWithProgress :
          StaysAt(i) =>
            filesWithProgress'[i].progress >= filesWithProgress[i].progress ]_vars

\* C9: a task that fails during chunking ends failed (it stays failed as long as
\* it is the document's task), its upload and extraction progress are what they
\* were before the failure, and the document is not marked processed.
C9_ChunkingFailureKeepsProgress ==
  [][ /\ (task.status = "chunking" /\ task'.status # "chunking"
                                   /\ task'.chunking_progress < 100) =>
            /\ task'.status = "failed"
            /\ task'.error_message # None
            /\ task'.upload_progress = task.upload_progress
            /\ task'.extraction_progress = task.extraction_progress
            /\ ~documentProcessed'
      /\ (task.status = "failed" /\ taskId' = taskId) =>
            /\ task' = task
            /\ ~documentProcessed'
    ]_vars

C9_FailedDuringChunking ==
  /\ task.status = "failed"
  /\ task.current_step = Some("chunking")
  /\ task.upload_progress = 100
  /\ task.extraction_progress = 100
  /\ task.chunking_progress > 0
  /\ ~documentProcessed

\* C10: a failed file leaves status failed only by retryProcessing.
C10_FailedLeftOnlyByRetry ==
  [][ \A i \in DOMAIN filesWithProgress :
        ( /\ StaysAt(i)
          /\ filesWithProgress[i].status = "failed"
          /\ filesWithProgress'[i].status # "failed" )
        => \E index \in 1..MaxFiles : retryProcessing(index) ]_vars

\* C11: a file whose run is completed keeps its status and its progress in every
\* later step, as long as it is in the dialog's list.
C11_CompletedIsTerminal ==
  [][ \A i \in DOMAIN filesWithProgress :
        (StaysAt(i) /\ filesWithProgress[i].status = "completed") =>
          /\ filesWithProgress'[i].status = "completed"
          /\ filesWithProgress'[i].progress = filesWithProgress[i].progress ]_vars

\* Job j is in its phase loop on the file at position i of the list.
RunsFile(j, i) ==
  /\ jobs[j].pc = "progress"
  /\ currentIndex(jobs[j]) = i
  /\ i \in DOMAIN jobs[j].selectedFiles
  /\ jobs[j].selectedFiles[i] = filesWithProgress[i].file

\* The loop of job j's phase makes its last write in this step.
LoopEnds(j) == jobs[j].progress + StepSizes[jobs[j].phase] > 100

\* C12: a run goes through the phases upload, text extraction, chunking,
\* vectorization in this order. A step of its phase loop either stays in the
\* phase and writes that phase's next progress value, or, the loop of the phase
\* having made its last write, starts the next phase at progress 0 (after the
\* last phase: calls the upload); what it writes to the file's entry is the
\* progress, and the name, of the phase the run is in.
C12_PhasesInOrder ==
  [][ \A j \in Jobs :
        (jobs[j].pc = "progress" /\ jobs'[j] # jobs[j] /\ jobs'[j].pc # "idle") =>
          /\ jobs'[j].i = jobs[j].i /\ jobs'[j].index = jobs[j].index
          /\ \/ /\ jobs'[j].pc = "progress"
                /\ jobs'[j].phase = jobs[j].phase
                /\ ~LoopEnds(j)
                /\ jobs'[j].progress = jobs[j].progress + StepSizes[jobs[j].phase]
             \/ /\ jobs'[j].pc = "progress"
                /\ jobs'[j].phase = jobs[j].phase + 1
                /\ LoopEnds(j)
                /\ jobs'[j].progress = 0
             \/ /\ jobs'[j].pc = "uploading"
                /\ jobs[j].phase = Len(Phases)
                /\ jobs'[j].phase = jobs[j].phase
                /\ LoopEnds(j)
          /\ \A i \in DOMAIN filesWithProgress :
               (RunsFile(j, i) /\ StaysAt(i)) =>
                 IF jobs'[j].phase = jobs[j].phase
                 THEN /\ filesWithProgress'[i].progress = jobs[j].progress
                      /\ filesWithProgress'[i].processingPhase =
                           filesWithProgress[i].processingPhase
                 ELSE /\ filesWithProgress'[i].progress = 0
                      /\ filesWithProgress'[i].processingPhase =
                           Some(Phases[jobs'[j].phase]) ]_vars

C12_RunInLastPhase ==
  \E j \in Jobs : \E i \in DOMAIN filesWithProgress :
    /\ RunsFile(j, i)
    /\ jobs[j].phase = Len(Phases)
    /\ filesWithProgress[i].status = "processing"
    /\ filesWithProgress[i].processingPhase = Some("vectorization")
    /\ filesWithProgress[i].progress > 0

\* chatService, transformBackendMessageToChatMessage: the filenames of the
\* entries, each once, in the order of their first occurrence (a Set's order).
RECURSIVE uniqueFileNames(_)
uniqueFileNames(list) ==
  IF list = <<>> THEN <<>>
  ELSE LET front == uniqueFileNames(SubSeq(list, 1, Len(list) - 1))
           name == list[Len(list)].filename
       IN IF name \in Range(front) THEN front ELSE Append(front, name)

\* C13: a completed assistant message has one source entry for each document
\* the retrieval returned, however many chunks of the document were returned.
C13_SourcesOncePerDocument ==
  \A t \in Turns :
    (Started(t) /\ AssistantMessageOf(t).status = "completed") =>
      /\ AssistantMessageOf(t).sources # None
      /\ Len(AssistantMessageOf(t).sources[1]) =
           Len(uniqueFileNames(turns[t].retrieved))

\* No other turn's message has the id of turn t's assistant message.
OwnsAssistantId(t) ==
  \A u \in Turns \ {t} :
    Started(u) =>
      turns[t].assistantMessage.id
        \notin {turns[u].userMessage.id, turns[u].assistantMessage.id}

\* C14: every completed assistant message has a list of sources; the list is
\* empty when the stream of the message's turn had no sources event or only
\* ones without entries.
C14_CompletedHasSourceList ==
  /\ \A i \in DOMAIN messages :
       (messages[i].role = "assistant" /\ messages[i].status = "completed") =>
         messages[i].sources # None
  /\ \A t \in Turns :
       ( /\ Started(t) /\ OwnsAssistantId(t)
         /\ AssistantMessageOf(t).status = "completed"
         /\ turns[t].retrieved = <<>> )
       => AssistantMessageOf(t).sources = Some(<<>>)

C14_CompletedWithoutRetrieval ==
  \E t \in Turns :
    /\ turns[t].pc = "ended" /\ OwnsAssistantId(t)
    /\ turns[t].retrieved = <<>>
    /\ AssistantMessageOf(t).status = "completed"
    /\ AssistantMessageOf(t).content # <<>>

\* C15: no step started from search mode selected with no file attached adds a
\* message to the chat, changes the file selection or sends a request.
C15_EmptySelectedModeRejected ==
  [][ (searchMode = "selected" /\ selectedFiles = <<>>) =>
        \A t \in Turns :
          (turns[t].pc = "none" /\ turns'[t].pc # "none") =>
            /\ Len(messages') = Len(messages)
            /\ turns'[t].pc # "fetching" ]_vars

\* C16: every message with status error has an error detail with a non-empty
\* message and a retryable flag.
C16_ErrorHasDetail ==
  \A i \in DOMAIN messages :
    messages[i].status = "error" =>
      /\ messages[i].error # None
      /\ messages[i].error[1].message # ""
      /\ messages[i].error[1].retryable \in BOOLEAN

\* An error event without text and a failed read have both set a status error.
C16_ErrorsOfBothPaths ==
  \E t, u \in Turns :
    /\ Started(t) /\ Started(u)
    /\ AssistantMessageOf(t).status = "error"
    /\ AssistantMessageOf(t).error = Some(errorDetail("", "Unknown streaming error"))
    /\ AssistantMessageOf(u).status = "error"
    /\ AssistantMessageOf(u).error = Some(errorDetail(ReadErrorText, "Connection failed"))

\* C17: every document id a turn sends as attachment is the id of a file that
\* is in the file list with processing status completed when the turn is sent.
C17_AttachmentsAreCompletedFiles ==
  [][ \A t \in Turns :
        (turns[t].pc = "none" /\ turns'[t].pc = "fetching") =>
          \A id \in Range(turns'[t].request.attachments) :
            \E i \in DOMAIN files :
              /\ files[i].id = id
              /\ files[i].processingStatus = "completed" ]_vars

\* A turn was sent with an attachment while the selection still held the id of
\* a file deleted since.
C17_SentAfterDeletion ==
  \E t \in Turns :
    /\ Started(t)
    /\ turns[t].request.attachments # <<>>
    /\ \E id \in Range(turns[t].request.selected) :
         id \notin Range(turns[t].request.attachments)

\* C18: the confidentiality of an upload request is the privacy setting the
\* dialog had when Upload was clicked.
C18_ConfidentialityAsChosen ==
  [][ \A j \in Jobs :
        (UploadSucceeds(j) \/ UploadFails(j)) =>
          /\ lastUploadCall' # None
          /\ lastUploadCall'[1].confidentiality = jobs[j].privacySetting ]_vars

\* The models the model list flags as able to access confidential data.
FlaggedModels == {m.id : m \in {n \in Range(ModelList) : n.canAccessConfidential}}

\* A model id that is in no model list.
UnknownModelId == "llama-unknown"

\* C19: a model is cleared for confidential documents exactly when the model
\* list is loaded and flags it; an id that is not in the list, or any id while
\* the list is not loaded, is not cleared, and a selection with a confidential
\* file then needs confirmation.
C19_ClearedOnlyIfKnownAndFlagged ==
  /\ \A id \in ModelIds \cup {UnknownModelId} :
       canModelAccessConfidential(id) <=> (models # <<>> /\ id \in FlaggedModels)
  /\ validation.needsConfirmation <=>
       /\ \E f \in Range(selectedFileObjects(selectedFiles)) : f.isConfidential
       /\ ~(models # <<>> /\ chatModel \in FlaggedModels)

\* The list is not loaded, the chat's model is one the list will flag, a
\* confidential file is selected: the warning is shown.
C19_WarnedBeforeModelsLoaded ==
  /\ models = <<>>
  /\ chatModel \in FlaggedModels
  /\ \E f \in Range(selectedFileObjects(selectedFiles)) : f.isConfidential
  /\ validation.shouldShowModal
  /\ showConfirmationModal

\* The file job j is processing: the one that was at its index when it started.
OwnFile(j) == jobs[j].selectedFiles[currentIndex(jobs[j])]

\* C20: a step of a run on one file (a progress or phase write of its phase
\* loop, or the write that marks it completed and starts the next file of the
\* same upload) leaves the entry of every other file of the list as it is,
\* also when files were removed from the list during the run.
C20_WritesStayInOwnEntry ==
  [][ \A j \in Jobs :
        ( /\ PhaseTick(j) \/ UploadSucceeds(j)
          /\ currentIndex(jobs[j]) \in DOMAIN jobs[j].selectedFiles )
        =>
        \A k \in DOMAIN filesWithProgress :
          ( /\ filesWithProgress[k].file # OwnFile(j)
            /\ ~( /\ jobs'[j].i = jobs[j].i + 1
                  /\ filesWithProgress[k].file = jobs[j].selectedFiles[jobs'[j].i] ) )
          => /\ k \in DOMAIN filesWithProgress'
             /\ filesWithProgress'[k] = filesWithProgress[k] ]_vars

\* C21: when the upload of a file fails, the entry of that file becomes failed
\* with an error message, and no other entry of the list becomes failed.
C21_FailureMarksOffendingFile ==
  [][ \A j \in Jobs :
        ( /\ UploadFails(j)
          /\ currentIndex(jobs[j]) \in DOMAIN jobs[j].selectedFiles )
        =>
        \A k \in DOMAIN filesWithProgress :
          IF filesWithProgress[k].file = OwnFile(j)
          THEN /\ filesWithProgress'[k].status = "failed"
               /\ filesWithProgress'[k].error # None
          ELSE filesWithProgress'[k].status = "failed" =>
                 filesWithProgress[k].status = "failed" ]_vars

\* The events of a body: its lines that start with the prefix and carry data,
\* in order, up to a done event.
EventsOf(bytes) == forLines(split(bytes), <<>>).chunks

\* C22: when streamMessage has returned, the chunks handed to onChunk are the
\* events of the body, each once and in order, however the body was cut into
\* reads, the last line included when no line feed follows it.
C22_EventsIndependentOfReads ==
  readerPc = "returned" => delivered = EventsOf(body)

\* A step of a model change or of a rename: the call up to its await, its
\* completion, or its revert.
ChatUpdateStep ==
  \/ \E model \in ModelIds : updateSessionModel(model)
  \/ \E chatId \in ChatIds, title \in Titles : updateChat(chatId, title)
  \/ \E u \in Updates : \/ UpdateModelResolves(u) \/ UpdateModelRejects(u)
                        \/ UpdateTitleResolves(u) \/ UpdateTitleRejects(u)

\* C23: a model change or a rename of a chat, the revert on a backend failure
\* included, leaves the messages of every chat as they are: no message is
\* removed, and no content or status a turn wrote while the update was
\* awaiting the backend is rolled back.
C23_UpdatesKeepMessages ==
  [][ ChatUpdateStep =>
        /\ \A i \in DOMAIN chats : chats'[i].messages = chats[i].messages
        /\ currentChat # None => currentChat'[1].messages = currentChat[1].messages ]_vars

\* C24: after a DELETE_CHAT the current chat is null or a chat of the list:
\* deleting the current chat never leaves the deleted chat selected.
C24_CurrentChatInListAfterDelete ==
  [][ (\E chatId \in ChatIds : deleteChat(chatId)) =>
        \/ currentChat' = None
        \/ \E i \in DOMAIN chats' : chats'[i].id = currentChat'[1].id ]_vars

\* C25: the search mode a turn is sent with is the mode the chat header shows
\* when the turn is sent: the selected mode once the user has selected one, the
\* displayed initial mode before any selection.
C25_SentModeIsDisplayedMode ==
  [][ \A t \in Turns :
        (turns[t].pc = "none" /\ turns'[t].pc = "fetching") =>
          turns'[t].request.searchMode = searchMode ]_vars

DeletedFileIds == {d.id : d \in Range(BackendDocuments)} \ Range(IdsOf(files))

\* C27: after a successful deleteFile(id), id is not in the file list, and no
\* turn sent afterwards has id among its attachment ids, even if id was in the
\* selection when the file was deleted.
C27_DeletedFileNeverAttached ==
  [][ /\ \A fileId \in {d.id : d \in Range(BackendDocuments)} :
           deleteFile(fileId) =>
             /\ fileId \notin Range(IdsOf(files'))
             /\ DeletedFileIds \subseteq DeletedFileIds'
      /\ \A t \in Turns :
           (turns[t].pc = "none" /\ turns'[t].pc = "fetching") =>
             /\ Range(turns'[t].request.attachments) \cap DeletedFileIds = {}
             /\ DeletedFileIds' = DeletedFileIds ]_vars

\* A turn was sent while the selection held the id of a deleted file.
C27_SentWithDeletedFileSelected ==
  \E t \in Turns :
    /\ Started(t)
    /\ \E id \in Range(turns[t].request.selected) :
         /\ id \in DeletedFileIds
         /\ id \notin Range(turns[t].request.attachments)

\* C29: every simulated phase ends with progress exactly 100: the last value
\* its loop writes, in the step after which the next phase starts or the
\* upload call that completes the file is made, is 100.
C29_PhaseEndsAtHundred ==
  [][ \A j \in Jobs :
        ( /\ PhaseTick(j)
          /\ \/ jobs'[j].phase # jobs[j].phase
             \/ jobs'[j].pc = "uploading" ) =>
        jobs[j].progress = 100 ]_vars

\* C28: while a mounted consumer of useBackendStatus has auto-check enabled,
\* the interval of the periodic checks is set: unmounting one consumer does
\* not stop the checks of the consumers that stay mounted.
C28_ChecksRunWhileConsumerMounted ==
  (\E c \in Consumers : consumers[c].mounted /\ consumers[c].enableAutoCheck)
    => checkInterval

\* The checkHealth call started last.
LastCheck == nextCheck - 1

\* C30: when no check is awaiting its response, the stored status, and the
\* status every listener was given, is the result of the check started last,
\* not that of an older check that finished later.
C30_LastStartedCheckWins ==
  (nextCheck > 1 /\ \A k \in Checks : checks[k].pc # "awaiting") =>
    /\ currentStatus = checks[LastCheck].result
    /\ \A c \in listeners : consumers[c].status = checks[LastCheck].result

====
